---- MODULE Spec2Model ----
(***************************************************************************)
(* easyjsonpy: two process-wide registries backed by JSON files.           *)
(*   ConfigLoader  (src/src/easyjsonpy/config_loader.py)                   *)
(*   LangLoader    (src/src/easyjsonpy/lang_loader.py)                     *)
(*                                                                         *)
(* Representation.                                                         *)
(*   A string is a sequence of one-character strings, so that              *)
(*   key.split('.') is computed and not assumed.                           *)
(*   A JSON value (a "document") is a function from the paths of its nodes *)
(*   (a path is a sequence of object member names, <<>> is the root) to a  *)
(*   node [t, s]: t is the JSON type, s the payload of a scalar.  Arrays   *)
(*   are leaves: the code never indexes into one.                          *)
(*   A file is a sequence of tokens [k, s, n]; json.dump writes one and    *)
(*   json.load parses one (or fails).                                      *)
(***************************************************************************)
EXTENDS Integers, Sequences, FiniteSets, TLC

----------------------------------------------------------------------------
(* Strings and dotted keys *)

\* str.split('.'): the segments between the dots; "" splits into [""].
RECURSIVE SplitFrom(_, _, _)
SplitFrom(s, i, cur) ==
    IF i > Len(s) THEN <<cur>>
    ELSE IF s[i] = "." THEN <<cur>> \o SplitFrom(s, i + 1, <<>>)
    ELSE SplitFrom(s, i + 1, Append(cur, s[i]))

Split(key) == SplitFrom(key, 1, <<>>)

----------------------------------------------------------------------------
(* JSON values *)

Node(t, s) == [t |-> t, s |-> s]
Leaf(t, s) == (<<>> :> Node(t, s))

EmptyObj == Leaf("obj", <<>>)
EmptyArr == Leaf("arr", <<>>)
JsonNull == Leaf("null", <<>>)
StrVal(s) == Leaf("str", s)
NumVal(s) == Leaf("num", s)

\* isinstance(d, dict)
IsDict(d) == d[<<>>].t = "obj"

\* k in d, for a dict d
HasKey(d, k) == <<k>> \in DOMAIN d

\* the member names of a dict
MemberNames(d) == {p[1] : p \in {q \in DOMAIN d : Len(q) >= 1}}

\* d[k], for a dict d that has k
Member(d, k) ==
    LET below == {p \in DOMAIN d : Len(p) >= 1 /\ p[1] = k}
    IN  [q \in {Tail(p) : p \in below} |-> d[<<k>> \o q]]

\* the dict d after d[k] = v
Put(d, k, v) ==
    LET keep == {p \in DOMAIN d : Len(p) = 0 \/ p[1] # k}
        new  == {<<k>> \o q : q \in DOMAIN v}
    IN  [p \in keep \cup new |->
            IF p \in keep THEN d[p] ELSE v[Tail(p)]]

\* Python's None: also what json.load returns for the JSON text null
PyNone == JsonNull

----------------------------------------------------------------------------
(* Dotted-path lookup: get_config / get_message *)

\* Mutant of GetStep: a missing member gives None instead of the key.
GetStepNone(d, k, key) ==
    IF IsDict(d)
    THEN IF HasKey(d, k) THEN Member(d, k) ELSE PyNone
    ELSE StrVal(key)

\* lambda d, k: d.get(k, key) if isinstance(d, dict) else key
GetStep(d, k, key) ==
    IF IsDict(d)
    THEN IF HasKey(d, k) THEN Member(d, k) ELSE StrVal(key)
    ELSE StrVal(key)

\* functools.reduce(step, keys, initial): a left fold over ALL the segments
RECURSIVE Reduce(_, _, _, _)
Reduce(d, keys, i, key) ==
    IF i > Len(keys) THEN d
    ELSE Reduce(GetStep(d, keys[i], key), keys, i + 1, key)

----------------------------------------------------------------------------
(* Dotted-path assignment: the loop of set_config / async_set_config *)

\* for k in key_parts[:-1]: config_dict = config_dict.setdefault(k, {})
\* config_dict[key_parts[-1]] = value
\* A value that is no dict has no setdefault (AttributeError) and takes no
\* item assignment with a string key (TypeError).  doc is the document as
\* the loop leaves it, also when it raises.
\* Mutant of SetIn: the value is assigned in the root dict, under the last
\* segment, without walking the segments before it.
SetInFlat(d, parts, value) ==
    IF IsDict(d)
    THEN [err |-> "ok", doc |-> Put(d, parts[Len(parts)], value)]
    ELSE [err |-> "TypeError", doc |-> d]

\* Mutant of SetIn: a value on the way that is no dict is replaced by a new
\* dict.
RECURSIVE SetInOverwrite(_, _, _)
SetInOverwrite(d, parts, value) ==
    LET dict == IF IsDict(d) THEN d ELSE EmptyObj IN
    IF Len(parts) = 1
    THEN [err |-> "ok", doc |-> Put(dict, parts[1], value)]
    ELSE LET child == IF HasKey(dict, parts[1])
                      THEN Member(dict, parts[1]) ELSE EmptyObj
             r == SetInOverwrite(child, Tail(parts), value)
         IN  [err |-> "ok", doc |-> Put(dict, parts[1], r.doc)]

RECURSIVE SetIn(_, _, _)
SetIn(d, parts, value) ==
    IF Len(parts) = 1
    THEN IF IsDict(d)
         THEN [err |-> "ok", doc |-> Put(d, parts[1], value)]
         ELSE [err |-> "TypeError", doc |-> d]
    ELSE IF ~IsDict(d)
         THEN [err |-> "AttributeError", doc |-> d]
         ELSE LET child == IF HasKey(d, parts[1])
                           THEN Member(d, parts[1]) ELSE EmptyObj
                  r == SetIn(child, Tail(parts), value)
              IN  [err |-> r.err, doc |-> Put(d, parts[1], r.doc)]

----------------------------------------------------------------------------
(* json.dump(doc, file, indent=4) and json.load(file) *)

Indent == 4

Tok(k, s, n) == [k |-> k, s |-> s, n |-> n]
Punct(k) == Tok(k, <<>>, 0)
\* a newline followed by n spaces
NewLine(n) == Tok("ws", <<>>, n)

\* The members of a dict in the order they are written.  Python writes them
\* in insertion order; the model fixes one order per set of names, which is
\* all a reader of the file can depend on (json.load builds an unordered
\* mapping).
RECURSIVE Ordered(_)
Ordered(S) ==
    IF S = {} THEN <<>>
    ELSE LET x == CHOOSE y \in S : TRUE IN <<x>> \o Ordered(S \ {x})

RECURSIVE Dumps(_, _)
RECURSIVE DumpMembers(_, _, _, _)
DumpMembers(d, names, i, level) ==
    IF i > Len(names) THEN <<>>
    ELSE (IF i > 1 THEN <<Punct(",")>> ELSE <<>>)
         \o <<NewLine(Indent * (level + 1)), Tok("str", names[i], 0), Punct(":")>>
         \o Dumps(Member(d, names[i]), level + 1)
         \o DumpMembers(d, names, i + 1, level)

Dumps(d, level) ==
    LET root == d[<<>>] IN
    CASE root.t = "obj" ->
           IF MemberNames(d) = {} THEN <<Punct("{"), Punct("}")>>
           ELSE <<Punct("{")>>
                \o DumpMembers(d, Ordered(MemberNames(d)), 1, level)
                \o <<NewLine(Indent * level), Punct("}")>>
      [] root.t = "arr" -> <<Punct("["), Punct("]")>>
      [] OTHER -> <<Tok(root.t, root.s, 0)>>

\* json.dumps(doc, indent=4)
JsonDumps(d) == Dumps(d, 0)

SkipWs(ts) == SelectSeq(ts, LAMBDA t : t.k # "ws")

ParseFail == [ok |-> FALSE, doc |-> JsonNull, next |-> 0]

\* One JSON value starting at token i of ts (whitespace already skipped).
RECURSIVE ParseValue(_, _)
RECURSIVE ParseMembers(_, _, _)
ParseMembers(ts, i, acc) ==
    IF i + 1 > Len(ts) \/ ts[i].k # "str" \/ ts[i + 1].k # ":" THEN ParseFail
    ELSE LET v == ParseValue(ts, i + 2) IN
         IF ~v.ok \/ v.next > Len(ts) THEN ParseFail
         ELSE LET acc2 == Put(acc, ts[i].s, v.doc) IN
              CASE ts[v.next].k = "," -> ParseMembers(ts, v.next + 1, acc2)
                [] ts[v.next].k = "}" ->
                     [ok |-> TRUE, doc |-> acc2, next |-> v.next + 1]
                [] OTHER -> ParseFail

ParseValue(ts, i) ==
    IF i > Len(ts) THEN ParseFail
    ELSE CASE ts[i].k = "{" ->
                IF i + 1 <= Len(ts) /\ ts[i + 1].k = "}"
                THEN [ok |-> TRUE, doc |-> EmptyObj, next |-> i + 2]
                ELSE ParseMembers(ts, i + 1, EmptyObj)
           [] ts[i].k = "[" ->
                IF i + 1 <= Len(ts) /\ ts[i + 1].k = "]"
                THEN [ok |-> TRUE, doc |-> EmptyArr, next |-> i + 2]
                ELSE ParseFail
           [] ts[i].k \in {"str", "num", "null"} ->
                [ok |-> TRUE, doc |-> Leaf(ts[i].k, ts[i].s), next |-> i + 1]
           [] OTHER -> ParseFail

\* json.load / json.loads: ok = FALSE stands for json.decoder.JSONDecodeError
JsonLoads(text) ==
    LET ts == SkipWs(text)
        v  == ParseValue(ts, 1)
    IN  IF v.ok /\ v.next = Len(ts) + 1
        THEN [ok |-> TRUE, doc |-> v.doc]
        ELSE [ok |-> FALSE, doc |-> JsonNull]

----------------------------------------------------------------------------
(* Python dicts and the file system *)

EmptyDict == [x \in {} |-> x]

\* m[k] = v
DictSet(m, k, v) == [x \in DOMAIN m \cup {k} |-> IF x = k THEN v ELSE m[x]]

\* del m[k] / m.pop(k, None)
DictDel(m, k) == [x \in DOMAIN m \ {k} |-> m[x]]

\* open(path, 'w') followed by a write of the whole text
WriteFile(fs, path, text) ==
    [p \in DOMAIN fs \cup {path} |-> IF p = path THEN text ELSE fs[p]]

\* The number of characters json.dumps(indent=4) writes for a token: ", "
\* is "," before a newline, ":" is ": ", a string has its quotes.
TokLen(t) ==
    CASE t.k = "ws" -> 1 + t.n
      [] t.k = "str" -> Len(t.s) + 2
      [] t.k = "num" -> Len(t.s)
      [] t.k = "null" -> 4
      [] t.k = ":" -> 2
      [] t.k = "tail" -> t.n
      [] OTHER -> 1

RECURSIVE TextLen(_)
TextLen(text) ==
    IF text = <<>> THEN 0 ELSE TokLen(Head(text)) + TextLen(Tail(text))

\* The file after a handle at position 0 flushes text over old content,
\* without truncating: text, followed by what old has beyond the length of
\* text, which is never whitespace alone.
Overlay(old, text) ==
    IF text = <<>> THEN old
    ELSE IF TextLen(text) >= TextLen(old) THEN text
    ELSE text \o <<Tok("tail", <<>>, TextLen(old) - TextLen(text))>>

----------------------------------------------------------------------------
(* Bounds and inputs *)

\* calls made by the application in one run
MaxCalls == 3

\* longest key, in characters, the lookups are compared on
MaxKeyLen == 3

\* longest list handed to remove_languages
MaxListLen == 2

\* the coroutines an application runs on the event loop
TaskIds == {1, 2}

ConfigNames == {"default", "alt"}
LangNames == {"en", "es"}

Keys ==
    {<<"a">>, <<"a", ".", "b">>, <<"b", ".", "a">>, <<"a", ".", "b", ".", "a">>}

Values == {NumVal(<<"1">>), EmptyObj}

\* en.json as json.dump writes it: {"a": {"b": "x"}}
EnDoc == Put(EmptyObj, <<"a">>, Put(EmptyObj, <<"b">>, StrVal(<<"x">>)))

\* es.json written by hand, without whitespace: {"a":"y","b":[]}
EsText ==
    <<Punct("{"), Tok("str", <<"a">>, 0), Punct(":"), Tok("str", <<"y">>, 0),
      Punct(","), Tok("str", <<"b">>, 0), Punct(":"), Punct("["), Punct("]"),
      Punct("}")>>

\* The files the application starts with.  null.json holds the JSON text
\* null, bad.json is cut short ("{"), missing.json does not exist.
InitDisk ==
    [p \in {"en.json", "es.json", "null.json", "bad.json"} |->
        CASE p = "en.json" -> JsonDumps(EnDoc)
          [] p = "es.json" -> EsText
          [] p = "null.json" -> <<Tok("null", <<>>, 0)>>
          [] OTHER -> <<Punct("{")>>]

Paths == DOMAIN InitDisk \cup {"missing.json"}

RECURSIVE SeqsUpTo(_, _)
SeqsUpTo(S, n) ==
    IF n = 0 THEN {<<>>}
    ELSE LET shorter == SeqsUpTo(S, n - 1)
         IN  shorter \cup {Append(q, x) : q \in shorter, x \in S}

NameLists == SeqsUpTo(LangNames, MaxListLen)

\* every key of at most MaxKeyLen characters over a, b and the dot
AllKeys == SeqsUpTo({"a", "b", "."}, MaxKeyLen)

\* The argument of a batch load.  An entry records what _check_*_list looks
\* at: whether it is a dict, which of the keys 'name' and 'path' it has, and
\* whether their values have the accepted types; isList is whether the
\* argument itself is a list.
Entry(name, path) ==
    [isDict |-> TRUE, keys |-> {"name", "path"}, nameIsStr |-> TRUE,
     pathIsPath |-> TRUE, name |-> name, path |-> path]
NotADict ==
    [isDict |-> FALSE, keys |-> {}, nameIsStr |-> FALSE, pathIsPath |-> FALSE,
     name |-> "", path |-> ""]
MissingPath(name) ==
    [isDict |-> TRUE, keys |-> {"name"}, nameIsStr |-> TRUE,
     pathIsPath |-> FALSE, name |-> name, path |-> ""]
NameNotStr(path) ==
    [isDict |-> TRUE, keys |-> {"name", "path"}, nameIsStr |-> FALSE,
     pathIsPath |-> TRUE, name |-> "", path |-> path]
ListOf(entries) == [isList |-> TRUE, entries |-> entries]
NotAList == [isList |-> FALSE, entries |-> <<>>]
NoBatch == ListOf(<<>>)

\* The batches the calls are made with, over two names: every way an entry
\* can fail to load or to validate, after and before a well-formed entry.
BatchesOf(n1, n2) ==
    { ListOf(<<Entry(n1, "en.json"), Entry(n2, "es.json")>>),
      ListOf(<<Entry(n1, "en.json"), Entry(n1, "es.json")>>),
      ListOf(<<Entry(n1, "en.json"), Entry(n2, "bad.json")>>),
      ListOf(<<Entry(n2, "missing.json"), Entry(n1, "en.json")>>),
      ListOf(<<Entry(n1, "en.json"), NotADict>>),
      ListOf(<<Entry(n1, "en.json"), MissingPath(n2)>>),
      ListOf(<<Entry(n1, "en.json"), NameNotStr("es.json")>>),
      NotAList }
\* For configs also two names loaded from one file.
ConfigBatches ==
    BatchesOf("default", "alt")
        \cup {ListOf(<<Entry("default", "en.json"), Entry("alt", "en.json")>>)}
LangBatches == BatchesOf("en", "es")

\* LangLoader.language before any set_language
NoLanguage == "<None>"

----------------------------------------------------------------------------
(* State *)

VARIABLES
    configurations,  \* ConfigLoader.configurations: name -> document
    config_paths,    \* ConfigLoader.config_paths: name -> path
    languages,       \* LangLoader.languages: name -> document
    language,        \* LangLoader.language: a name or None
    disk,            \* path -> text of the file at path
    last,            \* the call that returned last, with its outcome
    calls,           \* number of calls made
    written,         \* history: the names set with success since their load
    tasks            \* the coroutines of the event loop: task -> its call

vars ==
    <<configurations, config_paths, languages, language, disk, last, calls,
      written, tasks>>

cfgVars == <<configurations, config_paths>>
langVars == <<languages, language>>

\* A call, its arguments, the exception it raised ("ok" for none), what it
\* returned (ret a JSON value, sret a language name), and whether it got as
\* far as parsing a file.
Call(op, name, path, key, value, names) ==
    [op |-> op, name |-> name, path |-> path, key |-> key, value |-> value,
     names |-> names, err |-> "ok", ret |-> PyNone, sret |-> NoLanguage,
     parsed |-> FALSE, batch |-> NoBatch]

Raised(c, e) == [c EXCEPT !.err = e]
Returned(c, v) == [c EXCEPT !.ret = v]
Parsed(c) == [c EXCEPT !.parsed = TRUE]
WithBatch(c, b) == [c EXCEPT !.batch = b]

\* The names set with success since their load, once call c has returned.
WrittenAfter(c) ==
    IF c.err # "ok" THEN written
    ELSE CASE c.op \in {"set_config_value", "async_set_config_value"} ->
                written \cup {c.name}
           [] c.op = "remove_configuration" -> written \ {c.name}
           [] c.op = "remove_all_configurations" -> {}
           [] OTHER -> written

\* A coroutine: the call it runs, where it is suspended (pc), what it has
\* read (content) or is about to write (text), and the exception it ended
\* with.  ov records that it ran while another set on the same name did.
NoTask ==
    [pc |-> "done", op |-> "none", name |-> "", path |-> "", key |-> <<>>,
     value |-> PyNone, content |-> <<>>, text |-> <<>>, err |-> "ok",
     ov |-> FALSE]

\* A call made and awaited to completion while no coroutine is suspended.
Returns(c) ==
    /\ calls < MaxCalls
    /\ calls' = calls + 1
    /\ last' = c
    /\ written' = WrittenAfter(c)
    /\ UNCHANGED tasks

Init ==
    /\ configurations = EmptyDict
    /\ config_paths = EmptyDict
    /\ languages = EmptyDict
    /\ language = NoLanguage
    /\ disk = InitDisk
    /\ last = Call("init", "", "", <<>>, PyNone, <<>>)
    /\ calls = 0
    /\ written = {}
    /\ tasks = [t \in TaskIds |-> NoTask]

----------------------------------------------------------------------------
(* ConfigLoader *)

\* Mutant of LoadConfigResult: the file is looked for before the name.
LoadConfigResultFileFirst(config_name, config_path) ==
    IF config_path \notin DOMAIN disk
    THEN [err |-> "ConfigurationFileNotFoundError", doc |-> PyNone,
          parsed |-> FALSE]
    ELSE IF config_name \in DOMAIN configurations
    THEN [err |-> "ConfigurationAlreadyLoadedError", doc |-> PyNone,
          parsed |-> FALSE]
    ELSE LET parsed == JsonLoads(disk[config_path]) IN
         IF parsed.ok
         THEN [err |-> "ok", doc |-> parsed.doc, parsed |-> TRUE]
         ELSE [err |-> "ValueError", doc |-> PyNone, parsed |-> TRUE]

\* Mutant of LoadConfigResult: no os.path.exists test, so that open() raises
\* the builtin FileNotFoundError.
LoadConfigResultNoExists(config_name, config_path) ==
    IF config_name \in DOMAIN configurations
    THEN [err |-> "ConfigurationAlreadyLoadedError", doc |-> PyNone,
          parsed |-> FALSE]
    ELSE IF config_path \notin DOMAIN disk
    THEN [err |-> "FileNotFoundError", doc |-> PyNone, parsed |-> FALSE]
    ELSE LET parsed == JsonLoads(disk[config_path]) IN
         IF parsed.ok
         THEN [err |-> "ok", doc |-> parsed.doc, parsed |-> TRUE]
         ELSE [err |-> "ValueError", doc |-> PyNone, parsed |-> TRUE]

\* The three checks of load_configuration, in the order the code makes
\* them, and the entry it stores: [err, doc, parsed].  cfgs is
\* self.configurations when the method runs.
LoadConfigIn(cfgs, config_name, config_path) ==
    IF config_name \in DOMAIN cfgs
    THEN [err |-> "ConfigurationAlreadyLoadedError", doc |-> PyNone,
          parsed |-> FALSE]
    ELSE IF config_path \notin DOMAIN disk
    THEN [err |-> "ConfigurationFileNotFoundError", doc |-> PyNone,
          parsed |-> FALSE]
    ELSE LET parsed == JsonLoads(disk[config_path]) IN
         IF parsed.ok
         THEN [err |-> "ok", doc |-> parsed.doc, parsed |-> TRUE]
         ELSE [err |-> "ValueError", doc |-> PyNone, parsed |-> TRUE]

LoadConfigResult(config_name, config_path) ==
    LoadConfigIn(configurations, config_name, config_path)

\* ConfigLoader.load_configuration / load_configuration
load_configuration(config_name, config_path) ==
    LET r == LoadConfigResult(config_name, config_path)
        c == Call("load_configuration", config_name, config_path, <<>>, PyNone, <<>>)
    IN  /\ Returns(Raised(IF r.parsed THEN Parsed(c) ELSE c, r.err))
        /\ IF r.err = "ok"
           THEN /\ configurations' = DictSet(configurations, config_name, r.doc)
                /\ config_paths' = DictSet(config_paths, config_name, config_path)
           ELSE UNCHANGED cfgVars
        /\ UNCHANGED <<langVars, disk>>

\* Mutant of async_load_configuration: the path is stored before the
\* content is parsed.
async_load_configuration_PathFirst(config_name, config_path) ==
    LET c == Call("async_load_configuration", config_name, config_path,
                  <<>>, PyNone, <<>>)
    IN  /\ UNCHANGED <<langVars, disk>>
        /\ IF config_name \in DOMAIN configurations
           THEN /\ Returns(Raised(c, "ConfigurationAlreadyLoadedError"))
                /\ UNCHANGED cfgVars
           ELSE IF config_path \notin DOMAIN disk
           THEN /\ Returns(Raised(c, "ConfigurationFileNotFoundError"))
                /\ UNCHANGED cfgVars
           ELSE LET parsed == JsonLoads(disk[config_path])
                IN  /\ config_paths' =
                           DictSet(config_paths, config_name, config_path)
                    /\ IF parsed.ok
                       THEN /\ Returns(Parsed(c))
                            /\ configurations' =
                                   DictSet(configurations, config_name, parsed.doc)
                       ELSE /\ Returns(Raised(Parsed(c), "ValueError"))
                            /\ UNCHANGED configurations

\* ConfigLoader.async_load_configuration, awaited to completion: the checks,
\* then aiofiles' read of the whole file, then json.loads and the stores.
\* [err, doc, parsed]
AsyncLoadConfigIn(cfgs, config_name, config_path) ==
    IF config_name \in DOMAIN cfgs
    THEN [err |-> "ConfigurationAlreadyLoadedError", doc |-> PyNone,
          parsed |-> FALSE]
    ELSE IF config_path \notin DOMAIN disk
    THEN [err |-> "ConfigurationFileNotFoundError", doc |-> PyNone,
          parsed |-> FALSE]
    ELSE LET content == disk[config_path]
             parsed == JsonLoads(content)
         IN  IF parsed.ok
             THEN [err |-> "ok", doc |-> parsed.doc, parsed |-> TRUE]
             ELSE [err |-> "ValueError", doc |-> PyNone, parsed |-> TRUE]

AsyncLoadConfigResult(config_name, config_path) ==
    AsyncLoadConfigIn(configurations, config_name, config_path)

async_load_configuration(config_name, config_path) ==
    LET r == AsyncLoadConfigResult(config_name, config_path)
        c == Call("async_load_configuration", config_name, config_path,
                  <<>>, PyNone, <<>>)
    IN  /\ Returns(Raised(IF r.parsed THEN Parsed(c) ELSE c, r.err))
        /\ IF r.err = "ok"
           THEN /\ configurations' = DictSet(configurations, config_name, r.doc)
                /\ config_paths' = DictSet(config_paths, config_name, config_path)
           ELSE UNCHANGED cfgVars
        /\ UNCHANGED <<langVars, disk>>

\* ConfigLoader._check_configuration_list: the error it raises, or "ok".
EntryIsValid(e) ==
    /\ e.isDict
    /\ "name" \in e.keys /\ "path" \in e.keys
    /\ e.nameIsStr /\ e.pathIsPath

check_configuration_list(arg) ==
    IF ~arg.isList THEN "ValueError"
    ELSE IF \E i \in 1..Len(arg.entries) : ~EntryIsValid(arg.entries[i])
    THEN "ValueError"
    ELSE "ok"

\* The loop of load_configurations from entry i on, over the registry as the
\* entries before i left it: [err, configurations, config_paths].  The
\* first load that raises ends the loop.
RECURSIVE LoadConfigsFrom(_, _, _, _)
LoadConfigsFrom(cfgs, paths, entries, i) ==
    IF i > Len(entries)
    THEN [err |-> "ok", configurations |-> cfgs, config_paths |-> paths]
    ELSE LET e == entries[i]
             r == LoadConfigIn(cfgs, e.name, e.path)
         IN  IF r.err # "ok"
             THEN [err |-> r.err, configurations |-> cfgs,
                   config_paths |-> paths]
             ELSE LoadConfigsFrom(DictSet(cfgs, e.name, r.doc),
                                  DictSet(paths, e.name, e.path),
                                  entries, i + 1)

\* Mutant of LoadConfigurationsResult: each entry is validated only when the
\* loop reaches it.
RECURSIVE LoadConfigsLazyFrom(_, _, _, _)
LoadConfigsLazyFrom(cfgs, paths, entries, i) ==
    IF i > Len(entries)
    THEN [err |-> "ok", configurations |-> cfgs, config_paths |-> paths]
    ELSE IF ~EntryIsValid(entries[i])
    THEN [err |-> "ValueError", configurations |-> cfgs, config_paths |-> paths]
    ELSE LET e == entries[i]
             r == LoadConfigIn(cfgs, e.name, e.path)
         IN  IF r.err # "ok"
             THEN [err |-> r.err, configurations |-> cfgs,
                   config_paths |-> paths]
             ELSE LoadConfigsLazyFrom(DictSet(cfgs, e.name, r.doc),
                                      DictSet(paths, e.name, e.path),
                                      entries, i + 1)

LoadConfigurationsResultLazy(arg) ==
    IF ~arg.isList
    THEN [err |-> "ValueError", configurations |-> configurations,
          config_paths |-> config_paths]
    ELSE LoadConfigsLazyFrom(configurations, config_paths, arg.entries, 1)

LoadConfigurationsResult(arg) ==
    IF check_configuration_list(arg) # "ok"
    THEN [err |-> check_configuration_list(arg),
          configurations |-> configurations, config_paths |-> config_paths]
    ELSE LoadConfigsFrom(configurations, config_paths, arg.entries, 1)

\* ConfigLoader.load_configurations / load_configurations
load_configurations(arg) ==
    LET r == LoadConfigurationsResult(arg)
        c == WithBatch(Call("load_configurations", "", "", <<>>, PyNone, <<>>),
                       arg)
    IN  /\ Returns(Raised(c, r.err))
        /\ configurations' = r.configurations
        /\ config_paths' = r.config_paths
        /\ UNCHANGED <<langVars, disk>>

\* The loop of async_load_configurations, each load awaited before the next.
RECURSIVE AsyncLoadConfigsFrom(_, _, _, _)
AsyncLoadConfigsFrom(cfgs, paths, entries, i) ==
    IF i > Len(entries)
    THEN [err |-> "ok", configurations |-> cfgs, config_paths |-> paths]
    ELSE LET e == entries[i]
             r == AsyncLoadConfigIn(cfgs, e.name, e.path)
         IN  IF r.err # "ok"
             THEN [err |-> r.err, configurations |-> cfgs,
                   config_paths |-> paths]
             ELSE AsyncLoadConfigsFrom(DictSet(cfgs, e.name, r.doc),
                                       DictSet(paths, e.name, e.path),
                                       entries, i + 1)

AsyncLoadConfigurationsResult(arg) ==
    IF check_configuration_list(arg) # "ok"
    THEN [err |-> check_configuration_list(arg),
          configurations |-> configurations, config_paths |-> config_paths]
    ELSE AsyncLoadConfigsFrom(configurations, config_paths, arg.entries, 1)

\* ConfigLoader.async_load_configurations / async_load_configurations
async_load_configurations(arg) ==
    LET r == AsyncLoadConfigurationsResult(arg)
        c == WithBatch(Call("async_load_configurations", "", "", <<>>, PyNone,
                            <<>>), arg)
    IN  /\ Returns(Raised(c, r.err))
        /\ configurations' = r.configurations
        /\ config_paths' = r.config_paths
        /\ UNCHANGED <<langVars, disk>>

\* ConfigLoader.get_config: [err, ret]
get_config(key, config_name) ==
    IF config_name \notin DOMAIN configurations
    THEN [err |-> "ConfigurationNotLoadedError", ret |-> PyNone]
    ELSE [err |-> "ok",
          ret |-> Reduce(configurations[config_name], Split(key), 1, key)]

\* get_config_value
get_config_value(key, config_name) ==
    LET r == get_config(key, config_name)
        c == Call("get_config_value", config_name, "", key, PyNone, <<>>)
    IN  /\ Returns(Returned(Raised(c, r.err), r.ret))
        /\ UNCHANGED <<cfgVars, langVars, disk>>

\* get_configuration (module function): [err, ret]
GetConfiguration(config_name) ==
    IF config_name \notin DOMAIN configurations
    THEN [err |-> "ConfigurationNotLoadedError", ret |-> PyNone]
    ELSE [err |-> "ok", ret |-> configurations[config_name]]

get_configuration(config_name) ==
    LET r == GetConfiguration(config_name)
        c == Call("get_configuration", config_name, "", <<>>, PyNone, <<>>)
    IN  /\ Returns(Returned(Raised(c, r.err), r.ret))
        /\ UNCHANGED <<cfgVars, langVars, disk>>

\* ConfigLoader.get_configurations / get_configurations: the registry's own
\* dictionary of documents.
GetConfigurations == configurations

get_configurations ==
    /\ Returns(Call("get_configurations", "", "", <<>>, PyNone, <<>>))
    /\ UNCHANGED <<cfgVars, langVars, disk>>

\* Mutant of SetConfigResult: the file receives the value that was set, not
\* the document.
SetConfigResultDumpsValue(key, value, config_name) ==
    IF config_name \notin DOMAIN configurations
    THEN [err |-> "ConfigurationNotLoadedError",
          configurations |-> configurations, disk |-> disk]
    ELSE LET r == SetIn(configurations[config_name], Split(key), value)
             mutated == DictSet(configurations, config_name, r.doc)
         IN  IF r.err # "ok"
             THEN [err |-> r.err, configurations |-> mutated, disk |-> disk]
             ELSE IF config_name \notin DOMAIN config_paths
             THEN [err |-> "KeyError", configurations |-> mutated, disk |-> disk]
             ELSE [err |-> "ok", configurations |-> mutated,
                   disk |-> WriteFile(disk, config_paths[config_name],
                                      JsonDumps(value))]

\* Mutant of SetConfigResult: the assignment is made in the document of
\* every name that has the same path.
SetConfigResultSharedPath(key, value, config_name) ==
    IF config_name \notin DOMAIN configurations
    THEN [err |-> "ConfigurationNotLoadedError",
          configurations |-> configurations, disk |-> disk]
    ELSE LET r == SetIn(configurations[config_name], Split(key), value)
             mutated == DictSet(configurations, config_name, r.doc)
         IN  IF r.err # "ok"
             THEN [err |-> r.err, configurations |-> mutated, disk |-> disk]
             ELSE IF config_name \notin DOMAIN config_paths
             THEN [err |-> "KeyError", configurations |-> mutated, disk |-> disk]
             ELSE LET same == { n \in DOMAIN configurations :
                                  /\ n \in DOMAIN config_paths
                                  /\ config_paths[n] = config_paths[config_name] }
                      all == [n \in DOMAIN configurations |->
                                 IF n \in same THEN r.doc
                                 ELSE configurations[n]]
                  IN  [err |-> "ok", configurations |-> all,
                       disk |-> WriteFile(disk, config_paths[config_name],
                                          JsonDumps(r.doc))]

\* Mutant of SetConfigResult: the file is opened for writing, and so
\* emptied, before the key is walked.
SetConfigResultOpenFirst(key, value, config_name) ==
    IF config_name \notin DOMAIN configurations
    THEN [err |-> "ConfigurationNotLoadedError",
          configurations |-> configurations, disk |-> disk]
    ELSE IF config_name \notin DOMAIN config_paths
    THEN [err |-> "KeyError", configurations |-> configurations, disk |-> disk]
    ELSE LET r == SetIn(configurations[config_name], Split(key), value)
             mutated == DictSet(configurations, config_name, r.doc)
             opened == WriteFile(disk, config_paths[config_name], <<>>)
         IN  IF r.err # "ok"
             THEN [err |-> r.err, configurations |-> mutated, disk |-> opened]
             ELSE [err |-> "ok", configurations |-> mutated,
                   disk |-> WriteFile(disk, config_paths[config_name],
                                      JsonDumps(mutated[config_name]))]

\* What set_config does to the registry and the disk: [err, configurations,
\* disk].  The loop mutates the document in place, so whatever it did stays
\* when a later statement raises; the file is opened only after the
\* assignment and the lookup of the path.
SetConfigResult(key, value, config_name) ==
    IF config_name \notin DOMAIN configurations
    THEN [err |-> "ConfigurationNotLoadedError",
          configurations |-> configurations, disk |-> disk]
    ELSE LET r == SetIn(configurations[config_name], Split(key), value)
             mutated == DictSet(configurations, config_name, r.doc)
         IN  IF r.err # "ok"
             THEN [err |-> r.err, configurations |-> mutated, disk |-> disk]
             ELSE IF config_name \notin DOMAIN config_paths
             THEN [err |-> "KeyError", configurations |-> mutated, disk |-> disk]
             ELSE [err |-> "ok", configurations |-> mutated,
                   disk |-> WriteFile(disk, config_paths[config_name],
                                      JsonDumps(mutated[config_name]))]

\* ConfigLoader.set_config / set_config_value
set_config_value(key, value, config_name) ==
    LET r == SetConfigResult(key, value, config_name)
        c == Call("set_config_value", config_name, "", key, value, <<>>)
    IN  /\ Returns(Raised(c, r.err))
        /\ configurations' = r.configurations
        /\ disk' = r.disk
        /\ UNCHANGED <<config_paths, langVars>>

\* Mutant of AsyncSetConfigResult: the text written is the dump of the
\* document as it was before the assignment.
AsyncSetConfigResultStaleDump(key, value, config_name) ==
    IF config_name \notin DOMAIN configurations
    THEN [err |-> "ConfigurationNotLoadedError",
          configurations |-> configurations, disk |-> disk]
    ELSE LET r == SetIn(configurations[config_name], Split(key), value)
             mutated == DictSet(configurations, config_name, r.doc)
         IN  IF r.err # "ok"
             THEN [err |-> r.err, configurations |-> mutated, disk |-> disk]
             ELSE IF config_name \notin DOMAIN config_paths
             THEN [err |-> "KeyError", configurations |-> mutated, disk |-> disk]
             ELSE [err |-> "ok", configurations |-> mutated,
                   disk |-> WriteFile(disk, config_paths[config_name],
                                      JsonDumps(configurations[config_name]))]

\* ConfigLoader.async_set_config / async_set_config_value, awaited to
\* completion: the check, the loop and the assignment, the lookup of the
\* path, then aiofiles' open for writing, json.dumps of the document as it
\* is then, and the write.  [err, configurations, disk]
AsyncSetConfigResult(key, value, config_name) ==
    IF config_name \notin DOMAIN configurations
    THEN [err |-> "ConfigurationNotLoadedError",
          configurations |-> configurations, disk |-> disk]
    ELSE LET r == SetIn(configurations[config_name], Split(key), value)
             mutated == DictSet(configurations, config_name, r.doc)
         IN  IF r.err # "ok"
             THEN [err |-> r.err, configurations |-> mutated, disk |-> disk]
             ELSE IF config_name \notin DOMAIN config_paths
             THEN [err |-> "KeyError", configurations |-> mutated, disk |-> disk]
             ELSE LET config_path == config_paths[config_name]
                      text == JsonDumps(mutated[config_name])
                  IN  [err |-> "ok", configurations |-> mutated,
                       disk |-> WriteFile(disk, config_path, text)]

async_set_config_value(key, value, config_name) ==
    LET r == AsyncSetConfigResult(key, value, config_name)
        c == Call("async_set_config_value", config_name, "", key, value, <<>>)
    IN  /\ Returns(Raised(c, r.err))
        /\ configurations' = r.configurations
        /\ disk' = r.disk
        /\ UNCHANGED <<config_paths, langVars>>

\* Mutant of remove_configuration: pop(config_name, None) without the test.
remove_configuration_Pop(config_name) ==
    /\ Returns(Call("remove_configuration", config_name, "", <<>>, PyNone, <<>>))
    /\ configurations' = DictDel(configurations, config_name)
    /\ UNCHANGED <<config_paths, langVars, disk>>

\* remove_configuration: del config_loader.get_configurations()[config_name]
remove_configuration(config_name) ==
    LET c == Call("remove_configuration", config_name, "", <<>>, PyNone, <<>>)
    IN  /\ UNCHANGED <<config_paths, langVars, disk>>
        /\ IF config_name \notin DOMAIN configurations
           THEN /\ Returns(Raised(c, "ConfigurationNotLoadedError"))
                /\ UNCHANGED configurations
           ELSE /\ Returns(c)
                /\ configurations' = DictDel(configurations, config_name)

\* Mutant of remove_all_configurations: only the documents are cleared.
remove_all_configurations_KeepPaths ==
    /\ Returns(Call("remove_all_configurations", "", "", <<>>, PyNone, <<>>))
    /\ configurations' = EmptyDict
    /\ UNCHANGED <<config_paths, langVars, disk>>

\* remove_all_configurations: both dicts are cleared
remove_all_configurations ==
    /\ Returns(Call("remove_all_configurations", "", "", <<>>, PyNone, <<>>))
    /\ configurations' = EmptyDict
    /\ config_paths' = EmptyDict
    /\ UNCHANGED <<langVars, disk>>

NextConfig ==
    \/ \E n \in ConfigNames, p \in Paths : load_configuration(n, p)
    \/ \E n \in ConfigNames, p \in Paths : async_load_configuration(n, p)
    \/ \E b \in ConfigBatches : load_configurations(b)
    \/ \E b \in ConfigBatches : async_load_configurations(b)
    \/ get_configurations
    \/ \E n \in ConfigNames, k \in Keys : get_config_value(k, n)
    \/ \E n \in ConfigNames : get_configuration(n)
    \/ \E n \in ConfigNames, k \in Keys, v \in Values : set_config_value(k, v, n)
    \/ \E n \in ConfigNames, k \in Keys, v \in Values :
          async_set_config_value(k, v, n)
    \/ \E n \in ConfigNames : remove_configuration(n)
    \/ remove_all_configurations

----------------------------------------------------------------------------
(* LangLoader *)

\* The three checks of load_language, in the order the code makes them, and
\* the document it stores: [err, doc, parsed].
LoadLanguageIn(langs, lang_name, lang_path) ==
    IF lang_name \in DOMAIN langs
    THEN [err |-> "LanguageAlreadyLoadedError", doc |-> PyNone,
          parsed |-> FALSE]
    ELSE IF lang_path \notin DOMAIN disk
    THEN [err |-> "LanguageFileNotFoundError", doc |-> PyNone,
          parsed |-> FALSE]
    ELSE LET parsed == JsonLoads(disk[lang_path]) IN
         IF parsed.ok
         THEN [err |-> "ok", doc |-> parsed.doc, parsed |-> TRUE]
         ELSE [err |-> "ValueError", doc |-> PyNone, parsed |-> TRUE]

LoadLanguageResult(lang_name, lang_path) ==
    LoadLanguageIn(languages, lang_name, lang_path)

\* LangLoader.load_language / load_language
load_language(lang_name, lang_path) ==
    LET r == LoadLanguageResult(lang_name, lang_path)
        c == Call("load_language", lang_name, lang_path, <<>>, PyNone, <<>>)
    IN  /\ Returns(Raised(IF r.parsed THEN Parsed(c) ELSE c, r.err))
        /\ IF r.err = "ok"
           THEN languages' = DictSet(languages, lang_name, r.doc)
           ELSE UNCHANGED languages
        /\ UNCHANGED <<cfgVars, language, disk>>

\* LangLoader.async_load_language, awaited to completion: [err, doc, parsed]
AsyncLoadLanguageIn(langs, lang_name, lang_path) ==
    IF lang_name \in DOMAIN langs
    THEN [err |-> "LanguageAlreadyLoadedError", doc |-> PyNone,
          parsed |-> FALSE]
    ELSE IF lang_path \notin DOMAIN disk
    THEN [err |-> "LanguageFileNotFoundError", doc |-> PyNone,
          parsed |-> FALSE]
    ELSE LET content == disk[lang_path]
             parsed == JsonLoads(content)
         IN  IF parsed.ok
             THEN [err |-> "ok", doc |-> parsed.doc, parsed |-> TRUE]
             ELSE [err |-> "ValueError", doc |-> PyNone, parsed |-> TRUE]

AsyncLoadLanguageResult(lang_name, lang_path) ==
    AsyncLoadLanguageIn(languages, lang_name, lang_path)

async_load_language(lang_name, lang_path) ==
    LET r == AsyncLoadLanguageResult(lang_name, lang_path)
        c == Call("async_load_language", lang_name, lang_path, <<>>, PyNone, <<>>)
    IN  /\ Returns(Raised(IF r.parsed THEN Parsed(c) ELSE c, r.err))
        /\ IF r.err = "ok"
           THEN languages' = DictSet(languages, lang_name, r.doc)
           ELSE UNCHANGED languages
        /\ UNCHANGED <<cfgVars, language, disk>>

\* LangLoader._check_language_list: the error it raises, or "ok".
check_language_list(arg) ==
    IF ~arg.isList THEN "ValueError"
    ELSE IF \E i \in 1..Len(arg.entries) :
                \/ ~arg.entries[i].isDict
                \/ "name" \notin arg.entries[i].keys
                \/ "path" \notin arg.entries[i].keys
                \/ ~arg.entries[i].nameIsStr
                \/ ~arg.entries[i].pathIsPath
    THEN "ValueError"
    ELSE "ok"

\* Mutant of LoadLangsFrom: a failure rolls the batch back.
RECURSIVE LoadLangsFromAtomic(_, _, _)
LoadLangsFromAtomic(langs, entries, i) ==
    IF i > Len(entries)
    THEN [err |-> "ok", languages |-> langs]
    ELSE LET e == entries[i]
             r == LoadLanguageIn(langs, e.name, e.path)
         IN  IF r.err # "ok"
             THEN [err |-> r.err, languages |-> languages]
             ELSE LoadLangsFromAtomic(DictSet(langs, e.name, r.doc), entries,
                                      i + 1)

\* The loop of load_languages from entry i on: [err, languages]
RECURSIVE LoadLangsFrom(_, _, _)
LoadLangsFrom(langs, entries, i) ==
    IF i > Len(entries)
    THEN [err |-> "ok", languages |-> langs]
    ELSE LET e == entries[i]
             r == LoadLanguageIn(langs, e.name, e.path)
         IN  IF r.err # "ok"
             THEN [err |-> r.err, languages |-> langs]
             ELSE LoadLangsFrom(DictSet(langs, e.name, r.doc), entries, i + 1)

LoadLanguagesResult(arg) ==
    IF check_language_list(arg) # "ok"
    THEN [err |-> check_language_list(arg), languages |-> languages]
    ELSE LoadLangsFrom(languages, arg.entries, 1)

\* LangLoader.load_languages / load_languages
load_languages(arg) ==
    LET r == LoadLanguagesResult(arg)
        c == WithBatch(Call("load_languages", "", "", <<>>, PyNone, <<>>), arg)
    IN  /\ Returns(Raised(c, r.err))
        /\ languages' = r.languages
        /\ UNCHANGED <<cfgVars, language, disk>>

\* The loop of async_load_languages, each load awaited before the next.
RECURSIVE AsyncLoadLangsFrom(_, _, _)
AsyncLoadLangsFrom(langs, entries, i) ==
    IF i > Len(entries)
    THEN [err |-> "ok", languages |-> langs]
    ELSE LET e == entries[i]
             r == AsyncLoadLanguageIn(langs, e.name, e.path)
         IN  IF r.err # "ok"
             THEN [err |-> r.err, languages |-> langs]
             ELSE AsyncLoadLangsFrom(DictSet(langs, e.name, r.doc), entries,
                                     i + 1)

AsyncLoadLanguagesResult(arg) ==
    IF check_language_list(arg) # "ok"
    THEN [err |-> check_language_list(arg), languages |-> languages]
    ELSE AsyncLoadLangsFrom(languages, arg.entries, 1)

\* LangLoader.async_load_languages / async_load_languages
async_load_languages(arg) ==
    LET r == AsyncLoadLanguagesResult(arg)
        c == WithBatch(Call("async_load_languages", "", "", <<>>, PyNone,
                            <<>>), arg)
    IN  /\ Returns(Raised(c, r.err))
        /\ languages' = r.languages
        /\ UNCHANGED <<cfgVars, language, disk>>

\* Mutant of set_language: the pointer is assigned before the test.
set_language_AssignFirst(lang_name) ==
    LET c == Call("set_language", lang_name, "", <<>>, PyNone, <<>>)
    IN  /\ UNCHANGED <<cfgVars, languages, disk>>
        /\ language' = lang_name
        /\ IF lang_name \notin DOMAIN languages
           THEN Returns(Raised(c, "LanguageNotLoadedError"))
           ELSE Returns(c)

\* LangLoader.set_language / set_language
set_language(lang_name) ==
    LET c == Call("set_language", lang_name, "", <<>>, PyNone, <<>>)
    IN  /\ UNCHANGED <<cfgVars, languages, disk>>
        /\ IF lang_name \notin DOMAIN languages
           THEN /\ Returns(Raised(c, "LanguageNotLoadedError"))
                /\ UNCHANGED language
           ELSE /\ Returns(c)
                /\ language' = lang_name

\* LangLoader.get_message: [err, ret].  self.languages[self.language] is a
\* plain subscript: a KeyError when the dict has no such name.
get_message(key) ==
    IF language = NoLanguage
    THEN [err |-> "LanguageNotLoadedError", ret |-> PyNone]
    ELSE IF language \notin DOMAIN languages
    THEN [err |-> "KeyError", ret |-> PyNone]
    ELSE [err |-> "ok", ret |-> Reduce(languages[language], Split(key), 1, key)]

\* Mutant of translate_message: the lookup walks the document with
\* setdefault, as the loop of set_config does, and so creates what is
\* missing.
translate_message_SetDefault(key) ==
    LET r == get_message(key)
        c == Call("translate_message", "", "", key, PyNone, <<>>)
        walked == SetIn(languages[language], Split(key), StrVal(key))
    IN  /\ Returns(Returned(Raised(c, r.err), r.ret))
        /\ IF r.err = "ok" /\ r.ret = StrVal(key) /\ walked.err = "ok"
           THEN languages' = DictSet(languages, language, walked.doc)
           ELSE UNCHANGED languages
        /\ UNCHANGED <<cfgVars, language, disk>>

\* translate_message
translate_message(key) ==
    LET r == get_message(key)
        c == Call("translate_message", "", "", key, PyNone, <<>>)
    IN  /\ Returns(Returned(Raised(c, r.err), r.ret))
        /\ UNCHANGED <<cfgVars, langVars, disk>>

\* LangLoader.get_language / get_current_language
get_current_language ==
    /\ Returns([Call("get_current_language", "", "", <<>>, PyNone, <<>>)
                   EXCEPT !.sret = language])
    /\ UNCHANGED <<cfgVars, langVars, disk>>

\* get_language (module function): [err, ret].  dict.get gives None for an
\* absent name, and the test is "language is None".
GetLanguage(lang_name) ==
    LET found == IF lang_name \in DOMAIN languages
                 THEN languages[lang_name] ELSE PyNone
    IN  IF found = PyNone
        THEN [err |-> "LanguageNotLoadedError", ret |-> PyNone]
        ELSE [err |-> "ok", ret |-> found]

get_language(lang_name) ==
    LET r == GetLanguage(lang_name)
        c == Call("get_language", lang_name, "", <<>>, PyNone, <<>>)
    IN  /\ Returns(Returned(Raised(c, r.err), r.ret))
        /\ UNCHANGED <<cfgVars, langVars, disk>>

\* LangLoader.get_languages / get_languages: the registry's own dictionary.
GetLanguages == languages

get_languages ==
    /\ Returns(Call("get_languages", "", "", <<>>, PyNone, <<>>))
    /\ UNCHANGED <<cfgVars, langVars, disk>>

\* remove_language applied to a registry: [err, languages].  The test is
\* "not lang_loader.languages" (the dict is empty), then pop(name, None).
RemoveLanguage(langs, lang_name) ==
    IF DOMAIN langs = {}
    THEN [err |-> "LanguageNotLoadedError", languages |-> langs]
    ELSE [err |-> "ok", languages |-> DictDel(langs, lang_name)]

\* Mutant of remove_language: removing the active language resets it.
remove_language_ClearActive(lang_name) ==
    LET r == RemoveLanguage(languages, lang_name)
        c == Call("remove_language", lang_name, "", <<>>, PyNone, <<>>)
    IN  /\ Returns(Raised(c, r.err))
        /\ languages' = r.languages
        /\ language' = IF r.err = "ok" /\ lang_name = language
                       THEN NoLanguage ELSE language
        /\ UNCHANGED <<cfgVars, disk>>

remove_language(lang_name) ==
    LET r == RemoveLanguage(languages, lang_name)
        c == Call("remove_language", lang_name, "", <<>>, PyNone, <<>>)
    IN  /\ Returns(Raised(c, r.err))
        /\ languages' = r.languages
        /\ UNCHANGED <<cfgVars, language, disk>>

\* for lang_name in lang_names: remove_language(lang_name)
\* The first exception ends the loop; what was removed stays removed.
RECURSIVE RemoveLanguages(_, _, _)
RemoveLanguages(langs, lang_names, i) ==
    IF i > Len(lang_names) THEN [err |-> "ok", languages |-> langs]
    ELSE LET r == RemoveLanguage(langs, lang_names[i]) IN
         IF r.err # "ok" THEN r
         ELSE RemoveLanguages(r.languages, lang_names, i + 1)

remove_languages(lang_names) ==
    LET r == RemoveLanguages(languages, lang_names, 1)
        c == Call("remove_languages", "", "", <<>>, PyNone, lang_names)
    IN  /\ Returns(Raised(c, r.err))
        /\ languages' = r.languages
        /\ UNCHANGED <<cfgVars, language, disk>>

\* Mutant of remove_all_languages: the active language is reset as well.
remove_all_languages_ResetActive ==
    /\ Returns(Call("remove_all_languages", "", "", <<>>, PyNone, <<>>))
    /\ languages' = EmptyDict
    /\ language' = NoLanguage
    /\ UNCHANGED <<cfgVars, disk>>

\* remove_all_languages: lang_loader.languages = {}
remove_all_languages ==
    /\ Returns(Call("remove_all_languages", "", "", <<>>, PyNone, <<>>))
    /\ languages' = EmptyDict
    /\ UNCHANGED <<cfgVars, language, disk>>

NextLang ==
    \/ \E n \in LangNames, p \in Paths : load_language(n, p)
    \/ \E n \in LangNames, p \in Paths : async_load_language(n, p)
    \/ \E b \in LangBatches : load_languages(b)
    \/ \E b \in LangBatches : async_load_languages(b)
    \/ get_languages
    \/ \E n \in LangNames : set_language(n)
    \/ \E k \in Keys : translate_message(k)
    \/ get_current_language
    \/ \E n \in LangNames : get_language(n)
    \/ \E n \in LangNames : remove_language(n)
    \/ \E ns \in NameLists : remove_languages(ns)
    \/ remove_all_languages

Next == NextConfig \/ NextLang

Spec == Init /\ [][Next]_vars

\* The application after load_language("en", "en.json") and
\* set_language("en"), and the language calls it makes from there.
InitActive ==
    /\ configurations = EmptyDict
    /\ config_paths = EmptyDict
    /\ languages = DictSet(EmptyDict, "en", JsonLoads(InitDisk["en.json"]).doc)
    /\ language = "en"
    /\ disk = InitDisk
    /\ last = Call("set_language", "en", "", <<>>, PyNone, <<>>)
    /\ calls = 0
    /\ written = {}
    /\ tasks = [t \in TaskIds |-> NoTask]

SpecActive == InitActive /\ [][NextLang]_vars

----------------------------------------------------------------------------
(* Coroutines on one event loop: the async calls, step by step.  A coroutine
   runs from one await of aiofiles to the next without interruption; between
   two awaits any other coroutine may run. *)

Suspended(t) == tasks[t].pc # "done"

\* A new coroutine takes the first slot that is free.
FirstFree(t) ==
    /\ ~Suspended(t)
    /\ \A u \in TaskIds : u < t => Suspended(u)

\* A coroutine is given a call to run.
Starts(t, task) ==
    /\ FirstFree(t)
    /\ calls < MaxCalls
    /\ calls' = calls + 1
    /\ tasks' = [tasks EXCEPT ![t] = task]
    /\ UNCHANGED last

\* A suspended coroutine runs on to its next await.
Resumes(t, from, task) ==
    /\ tasks[t].pc = from
    /\ tasks' = [tasks EXCEPT ![t] = task]
    /\ UNCHANGED <<last, calls>>

TaskOf(op, name, path, key, value) ==
    [NoTask EXCEPT !.op = op, !.name = name, !.path = path, !.key = key,
                   !.value = value]

At(task, pc) == [task EXCEPT !.pc = pc]
Failed(task, pc, e) == [task EXCEPT !.pc = pc, !.err = e]

\* async_load_configuration up to aiofiles.open: the two checks.
start_async_load_configuration(t, config_name, config_path) ==
    LET task == TaskOf("async_load_configuration", config_name, config_path,
                       <<>>, PyNone)
    IN  /\ Starts(t, IF config_name \in DOMAIN configurations
                     THEN Failed(task, "done",
                                 "ConfigurationAlreadyLoadedError")
                     ELSE IF config_path \notin DOMAIN disk
                     THEN Failed(task, "done",
                                 "ConfigurationFileNotFoundError")
                     ELSE At(task, "open_r"))
        /\ UNCHANGED <<cfgVars, langVars, disk, written>>

\* async_load_language up to aiofiles.open
start_async_load_language(t, lang_name, lang_path) ==
    LET task == TaskOf("async_load_language", lang_name, lang_path, <<>>,
                       PyNone)
    IN  /\ Starts(t, IF lang_name \in DOMAIN languages
                     THEN Failed(task, "done", "LanguageAlreadyLoadedError")
                     ELSE IF lang_path \notin DOMAIN disk
                     THEN Failed(task, "done", "LanguageFileNotFoundError")
                     ELSE At(task, "open_r"))
        /\ UNCHANGED <<cfgVars, langVars, disk, written>>

\* aiofiles.open(path, 'r') has opened the file; the coroutine awaits read().
open_read(t) ==
    /\ Resumes(t, "open_r", At(tasks[t], "read"))
    /\ UNCHANGED <<cfgVars, langVars, disk, written>>

\* read() has read the whole file as it is now.
read_file(t) ==
    /\ Resumes(t, "read",
               [tasks[t] EXCEPT !.pc = "loaded", !.content = disk[tasks[t].path]])
    /\ UNCHANGED <<cfgVars, langVars, disk, written>>

\* Mutant of store_configuration: the name is tested again after the read.
store_configuration_Recheck(t) ==
    LET task == tasks[t]
        parsed == JsonLoads(task.content)
    IN  /\ task.op = "async_load_configuration"
        /\ IF task.name \in DOMAIN configurations
           THEN /\ Resumes(t, "loaded",
                           Failed(task, "close",
                                  "ConfigurationAlreadyLoadedError"))
                /\ UNCHANGED <<cfgVars, written>>
           ELSE IF parsed.ok
           THEN /\ Resumes(t, "loaded", At(task, "close"))
                /\ configurations' =
                      DictSet(configurations, task.name, parsed.doc)
                /\ config_paths' = DictSet(config_paths, task.name, task.path)
                /\ written' = written \ {task.name}
           ELSE /\ Resumes(t, "loaded", Failed(task, "close", "ValueError"))
                /\ UNCHANGED <<cfgVars, written>>
        /\ UNCHANGED <<langVars, disk>>

\* async_load_configuration after read(): json.loads and the two stores, or
\* ValueError; then the file is closed on leaving the with block.
store_configuration(t) ==
    LET task == tasks[t]
        parsed == JsonLoads(task.content)
    IN  /\ task.op = "async_load_configuration"
        /\ IF parsed.ok
           THEN /\ Resumes(t, "loaded", At(task, "close"))
                /\ configurations' =
                      DictSet(configurations, task.name, parsed.doc)
                /\ config_paths' = DictSet(config_paths, task.name, task.path)
                /\ written' = written \ {task.name}
           ELSE /\ Resumes(t, "loaded", Failed(task, "close", "ValueError"))
                /\ UNCHANGED <<cfgVars, written>>
        /\ UNCHANGED <<langVars, disk>>

\* async_load_language after read()
store_language(t) ==
    LET task == tasks[t]
        parsed == JsonLoads(task.content)
    IN  /\ task.op = "async_load_language"
        /\ IF parsed.ok
           THEN /\ Resumes(t, "loaded", At(task, "close"))
                /\ languages' = DictSet(languages, task.name, parsed.doc)
           ELSE /\ Resumes(t, "loaded", Failed(task, "close", "ValueError"))
                /\ UNCHANGED languages
        /\ UNCHANGED <<cfgVars, language, disk, written>>

\* async_set_config up to aiofiles.open: the check, the loop, the
\* assignment and the lookup of the path.
start_async_set_config(t, key, value, config_name) ==
    LET task == TaskOf("async_set_config_value", config_name, "", key, value)
        loaded == config_name \in DOMAIN configurations
        r == SetIn(configurations[config_name], Split(key), value)
        others == { u \in TaskIds \ {t} :
                      /\ Suspended(u)
                      /\ tasks[u].op = "async_set_config_value"
                      /\ tasks[u].name = config_name }
        mine == IF ~loaded
                THEN Failed(task, "done", "ConfigurationNotLoadedError")
                ELSE IF r.err # "ok" THEN Failed(task, "done", r.err)
                ELSE IF config_name \notin DOMAIN config_paths
                THEN Failed(task, "done", "KeyError")
                ELSE [task EXCEPT !.pc = "open_w",
                                  !.path = config_paths[config_name],
                                  !.ov = others # {}]
    IN  /\ FirstFree(t)
        /\ calls < MaxCalls
        /\ calls' = calls + 1
        /\ tasks' = [u \in TaskIds |->
                        IF u = t THEN mine
                        ELSE IF u \in others /\ mine.pc = "open_w"
                        THEN [tasks[u] EXCEPT !.ov = TRUE]
                        ELSE tasks[u]]
        /\ configurations' =
              IF loaded
              THEN DictSet(configurations, config_name, r.doc)
              ELSE configurations
        /\ UNCHANGED <<config_paths, langVars, disk, written, last>>

\* aiofiles.open(path, 'w') has opened the file: it is empty now.
open_write(t) ==
    /\ Resumes(t, "open_w", At(tasks[t], "dump"))
    /\ disk' = WriteFile(disk, tasks[t].path, <<>>)
    /\ UNCHANGED <<cfgVars, langVars, written>>

\* json.dumps(self.configurations[config_name], indent=4), of the registry
\* as it is when the coroutine runs again; the text is handed to write().
\* A name no longer loaded is a KeyError, raised inside the with block.
dump_document(t) ==
    LET task == tasks[t] IN
    /\ Resumes(t, "dump",
               IF task.name \in DOMAIN configurations
               THEN [task EXCEPT !.pc = "write",
                                 !.text = JsonDumps(configurations[task.name])]
               ELSE Failed(task, "close", "KeyError"))
    /\ UNCHANGED <<cfgVars, langVars, disk, written>>

\* write() has put the text into the buffer of the file object.
write_text(t) ==
    /\ Resumes(t, "write", At(tasks[t], "close"))
    /\ UNCHANGED <<cfgVars, langVars, disk, written>>

\* Leaving the with block closes the file.  A file opened for writing
\* flushes its buffer at its own position, the start of the file.
close_file(t) ==
    LET task == tasks[t]
        writes == task.op = "async_set_config_value"
    IN  /\ Resumes(t, "close", At(task, "done"))
        /\ disk' = IF writes
                   THEN [disk EXCEPT
                            ![task.path] = Overlay(disk[task.path], task.text)]
                   ELSE disk
        /\ written' = IF writes /\ task.err = "ok"
                      THEN written \cup {task.name} ELSE written
        /\ UNCHANGED <<cfgVars, langVars>>

\* What the coroutines call with: one name per registry, a key that is
\* there, one whose object is missing and one that runs through a string.
AsyncConfigNames == {"default"}
AsyncLangNames == {"en"}
AsyncPaths == {"en.json", "es.json", "bad.json", "missing.json"}
AsyncKeys == {<<"a">>, <<"b", ".", "a">>, <<"a", ".", "b", ".", "a">>}

\* Calls made by the coroutines: the async ones step by step, and the sync
\* load and removals, which run without any await.
NextAsync ==
    \/ \E t \in TaskIds, n \in AsyncConfigNames, p \in AsyncPaths :
          start_async_load_configuration(t, n, p)
    \/ \E t \in TaskIds, n \in AsyncLangNames, p \in AsyncPaths :
          start_async_load_language(t, n, p)
    \/ \E t \in TaskIds, n \in AsyncConfigNames, k \in AsyncKeys,
          v \in Values :
          start_async_set_config(t, k, v, n)
    \/ \E t \in TaskIds : open_read(t)
    \/ \E t \in TaskIds : read_file(t)
    \/ \E t \in TaskIds : store_configuration(t)
    \/ \E t \in TaskIds : store_language(t)
    \/ \E t \in TaskIds : open_write(t)
    \/ \E t \in TaskIds : dump_document(t)
    \/ \E t \in TaskIds : write_text(t)
    \/ \E t \in TaskIds : close_file(t)
    \/ \E n \in AsyncConfigNames, p \in AsyncPaths : load_configuration(n, p)
    \/ \E n \in AsyncConfigNames : remove_configuration(n)
    \/ remove_all_configurations

SpecAsync == Init /\ [][NextAsync]_vars

----------------------------------------------------------------------------
(* Claims *)

SetOps == {"set_config_value", "async_set_config_value"}
ConfigLoadOps == {"load_configuration", "async_load_configuration"}
LangLoadOps == {"load_language", "async_load_language"}

\* The resolver as the specification words it: descend while the current
\* value is an object that has the segment; stop with the whole key as soon
\* as it is not.
RECURSIVE Descend(_, _, _)
Descend(cur, segs, key) ==
    IF segs = <<>> THEN cur
    ELSE IF IsDict(cur) /\ HasKey(cur, Head(segs))
    THEN Descend(Member(cur, Head(segs)), Tail(segs), key)
    ELSE StrVal(key)

\* The last call was a set on a name that was loaded when it was made, and
\* get on the same key and name gives back the value, as does the file at
\* the config's path when loaded under a name not in use.
SetRoundTrip ==
    /\ get_config(last.key, last.name) = [err |-> "ok", ret |-> last.value]
    /\ last.name \in DOMAIN config_paths
    /\ LET reloaded == LoadConfigResult("fresh", config_paths[last.name])
       IN  /\ reloaded.err = "ok"
           /\ Reduce(reloaded.doc, Split(last.key), 1, last.key) = last.value

C2_GetIsResolver ==
    /\ \A n \in DOMAIN configurations : \A k \in AllKeys :
          get_config(k, n) =
             [err |-> "ok",
              ret |-> Descend(configurations[n], Split(k), k)]
    /\ (last.op = "get_config_value" /\ last.name \in DOMAIN configurations)
          => /\ last.err = "ok"
             /\ last.ret = Descend(configurations[last.name],
                                   Split(last.key), last.key)

\* a get through the array b of es.json fell back to the key b.a
C2_Witness ==
    /\ last.op = "get_config_value"
    /\ last.key = <<"b", ".", "a">>
    /\ last.name \in DOMAIN configurations
    /\ <<<<"b">>>> \in DOMAIN configurations[last.name]
    /\ configurations[last.name][<<<<"b">>>>].t = "arr"
    /\ last.ret = StrVal(last.key)

\* C3: in both registries, sync and async, a load of a name that is already
\* present fails with AlreadyLoaded whatever the path, and the entry keeps
\* its document and its path.
C3_DuplicateLoadFails ==
    [][ /\ (last'.op \in ConfigLoadOps /\ last'.name \in DOMAIN configurations)
            => /\ last'.err = "ConfigurationAlreadyLoadedError"
               /\ configurations' = configurations
               /\ config_paths' = config_paths
        /\ (last'.op \in LangLoadOps /\ last'.name \in DOMAIN languages)
            => /\ last'.err = "LanguageAlreadyLoadedError"
               /\ languages' = languages ]_vars

\* a loaded config name was loaded again from a path that does not exist
C3_Witness ==
    /\ last.op = "async_load_configuration"
    /\ last.err = "ConfigurationAlreadyLoadedError"
    /\ last.path = "missing.json"
    /\ config_paths[last.name] = "en.json"

\* C4 as stated: in every registry state and for every name, a load from a
\* path that does not exist fails with FileNotFound.
C4_MissingFile_AsStated ==
    ((last.op \in ConfigLoadOps \cup LangLoadOps) /\ last.path \notin DOMAIN disk)
        => last.err \in {"ConfigurationFileNotFoundError",
                         "LanguageFileNotFoundError"}

\* C4 amended: a load from a path that does not exist always fails, without
\* any parse attempt and leaving the registry unchanged; the error is
\* FileNotFound when the name is not loaded, and AlreadyLoaded when it is.
C4_MissingFile ==
    [][ /\ (last'.op \in ConfigLoadOps /\ last'.path \notin DOMAIN disk)
            => /\ last'.err = IF last'.name \in DOMAIN configurations
                              THEN "ConfigurationAlreadyLoadedError"
                              ELSE "ConfigurationFileNotFoundError"
               /\ ~last'.parsed
               /\ UNCHANGED <<cfgVars, disk>>
        /\ (last'.op \in LangLoadOps /\ last'.path \notin DOMAIN disk)
            => /\ last'.err = IF last'.name \in DOMAIN languages
                              THEN "LanguageAlreadyLoadedError"
                              ELSE "LanguageFileNotFoundError"
               /\ ~last'.parsed
               /\ UNCHANGED <<langVars, disk>> ]_vars

\* a load from a missing path failed with FileNotFound in a registry that
\* holds another language
C4_Witness ==
    /\ last.op = "load_language"
    /\ last.path = "missing.json"
    /\ last.err = "LanguageFileNotFoundError"
    /\ DOMAIN languages # {}

\* C5: a load (sync or async, config or language) of an existing file that
\* is not valid JSON fails with ValueError and stores nothing: the document
\* map and the path map are as before, the name is absent, and a load of
\* the same name from a valid file then succeeds.
C5_InvalidJsonStoresNothing ==
    /\ [][ /\ ( /\ last'.op \in ConfigLoadOps
                /\ last'.name \notin DOMAIN configurations
                /\ last'.path \in DOMAIN disk
                /\ ~JsonLoads(disk[last'.path]).ok )
               => /\ last'.err = "ValueError"
                  /\ UNCHANGED cfgVars
           /\ ( /\ last'.op \in LangLoadOps
                /\ last'.name \notin DOMAIN languages
                /\ last'.path \in DOMAIN disk
                /\ ~JsonLoads(disk[last'.path]).ok )
               => /\ last'.err = "ValueError"
                  /\ UNCHANGED languages ]_vars
    /\ [](/\ (last.op \in ConfigLoadOps /\ last.err = "ValueError")
             => /\ last.name \notin DOMAIN configurations
                /\ LoadConfigResult(last.name, "en.json").err = "ok"
          /\ (last.op \in LangLoadOps /\ last.err = "ValueError")
             => /\ last.name \notin DOMAIN languages
                /\ LoadLanguageResult(last.name, "en.json").err = "ok")

\* an async config load of bad.json failed and left the name absent
C5_Witness ==
    /\ last.op = "async_load_configuration"
    /\ last.path = "bad.json"
    /\ last.err = "ValueError"
    /\ last.parsed
    /\ last.name \notin DOMAIN configurations
    /\ last.name \notin DOMAIN config_paths

\* C6: after remove_configuration(name) succeeds the name is in neither
\* map, and in every reachable state the document map and the path map
\* have the same names.
C6_MapsHaveSameNames ==
    /\ (last.op = "remove_configuration" /\ last.err = "ok")
          => /\ last.name \notin DOMAIN configurations
             /\ last.name \notin DOMAIN config_paths
    /\ DOMAIN configurations = DOMAIN config_paths

\* remove_language as the claim has it: NotLoaded for an absent name,
\* otherwise exactly that entry is deleted
ContractRemoveLanguage(langs, lang_name) ==
    IF lang_name \notin DOMAIN langs
    THEN [err |-> "LanguageNotLoadedError", languages |-> langs]
    ELSE [err |-> "ok", languages |-> DictDel(langs, lang_name)]

RECURSIVE ContractRemoveLanguages(_, _, _)
ContractRemoveLanguages(langs, lang_names, i) ==
    IF i > Len(lang_names) THEN [err |-> "ok", languages |-> langs]
    ELSE LET r == ContractRemoveLanguage(langs, lang_names[i]) IN
         IF r.err # "ok" THEN r
         ELSE ContractRemoveLanguages(r.languages, lang_names, i + 1)

\* C7: remove_language(name) fails with NotLoaded whenever name is absent,
\* also when other languages are loaded, and otherwise deletes exactly that
\* entry; remove_languages applies this to each name in order.
C7_RemoveLanguageContract ==
    [][ /\ last'.op = "remove_language"
            => LET r == ContractRemoveLanguage(languages, last'.name)
               IN  last'.err = r.err /\ languages' = r.languages
        /\ last'.op = "remove_languages"
            => LET r == ContractRemoveLanguages(languages, last'.names, 1)
               IN  last'.err = r.err /\ languages' = r.languages ]_vars

\* C8: in every reachable state translate has exactly two outcomes:
\* NotLoaded when there is no active language, and otherwise the resolver's
\* result on the document of the active language.
C8_TranslateTwoOutcomes ==
    \A k \in Keys :
        LET r == get_message(k) IN
        IF language = NoLanguage
        THEN r.err = "LanguageNotLoadedError"
        ELSE /\ r.err = "ok"
             /\ language \in DOMAIN languages
             /\ r.ret = Descend(languages[language], Split(k), k)

NamedConfigOps ==
    {"get_config_value", "set_config_value", "async_set_config_value",
     "get_configuration", "remove_configuration"}

\* C9: get_config_value, set_config_value, async_set_config_value,
\* get_configuration and remove_configuration on a name absent from the
\* registry fail with NotLoaded and leave every document, the path map and
\* every file unchanged.
C9_AbsentNameNotLoaded ==
    [][ (last'.op \in NamedConfigOps /\ last'.name \notin DOMAIN configurations)
            => /\ last'.err = "ConfigurationNotLoadedError"
               /\ UNCHANGED <<configurations, config_paths, disk>> ]_vars

\* a removed config whose path entry is still there was removed again
C9_Witness ==
    /\ last.op = "remove_configuration"
    /\ last.err = "ConfigurationNotLoadedError"
    /\ last.name \in DOMAIN config_paths

\* C10: set_language(name) fails with NotLoaded for an absent name and then
\* leaves the pointer as it was, and otherwise makes name the pointer; no
\* other call changes the pointer, which starts as None, and
\* get_current_language returns it.
C10_ActivePointer ==
    /\ language = NoLanguage
    /\ [][ /\ last'.op = "set_language"
               => IF last'.name \in DOMAIN languages
                  THEN last'.err = "ok" /\ language' = last'.name
                  ELSE /\ last'.err = "LanguageNotLoadedError"
                       /\ language' = language
           /\ last'.op # "set_language" => language' = language
           /\ last'.op = "get_current_language" => last'.sret = language ]_vars

\* set_language failed after an earlier one had succeeded: the pointer stays
C10_Witness ==
    /\ last.op = "set_language"
    /\ last.err = "LanguageNotLoadedError"
    /\ language \in LangNames
    /\ last.name # language

\* C11: get_language(name) fails with NotLoaded if and only if name is
\* absent from the language registry; for every loaded name it returns the
\* loaded document, whatever JSON value is at its root.
C11_GetLanguageIffLoaded ==
    \A n \in LangNames :
        GetLanguage(n) =
            IF n \in DOMAIN languages
            THEN [err |-> "ok", ret |-> languages[n]]
            ELSE [err |-> "LanguageNotLoadedError", ret |-> PyNone]

----------------------------------------------------------------------------
(* Batch loads *)

ConfigBatchOps == {"load_configurations", "async_load_configurations"}
LangBatchOps == {"load_languages", "async_load_languages"}

\* A batch that passes the validation of its shape.
WellFormed(arg) ==
    /\ arg.isList
    /\ \A i \in 1..Len(arg.entries) :
          LET e == arg.entries[i] IN
          /\ e.isDict /\ e.keys = {"name", "path"}
          /\ e.nameIsStr /\ e.pathIsPath

\* Why an entry cannot be loaded when the names in loaded are taken: the
\* name of the error, or "ok".  alreadyErr and notFoundErr are the
\* registry's own error classes.
EntryError(loaded, e, alreadyErr, notFoundErr) ==
    IF e.name \in loaded THEN alreadyErr
    ELSE IF e.path \notin DOMAIN disk THEN notFoundErr
    ELSE IF ~JsonLoads(disk[e.path]).ok THEN "ValueError"
    ELSE "ok"

NamesBefore(entries, i) == { entries[j].name : j \in 1..(i - 1) }

\* The first entry that fails, Len + 1 if none does.
FirstFailure(loaded, entries, alreadyErr, notFoundErr) ==
    LET fails(i) == EntryError(loaded \cup NamesBefore(entries, i), entries[i],
                               alreadyErr, notFoundErr) # "ok"
        failing == { i \in 1..Len(entries) : fails(i) }
    IN  IF failing = {} THEN Len(entries) + 1
        ELSE CHOOSE i \in failing : \A j \in failing : i <= j

\* What a well-formed batch must leave behind in a map from names to loaded
\* things: the entries before the first failure, and what was there before.
BatchOutcome(before, after, entries, f, stored(_)) ==
    /\ DOMAIN after = DOMAIN before \cup NamesBefore(entries, f)
    /\ \A n \in DOMAIN before : after[n] = before[n]
    /\ \A j \in 1..(f - 1) : after[entries[j].name] = stored(entries[j])

\* C12: a well-formed batch load whose entry i is the first to fail raises
\* that entry's error and stops: the entries before i are loaded, from their
\* files and under their paths, nothing from i on is loaded, and whatever
\* was loaded before the batch is still there.  A batch naming one name
\* twice loads the first occurrence and raises AlreadyLoaded.
C12_BatchHaltsAtFirstError ==
    [][ /\ (last'.op \in ConfigBatchOps /\ WellFormed(last'.batch)) =>
            LET es == last'.batch.entries
                f == FirstFailure(DOMAIN configurations, es,
                                  "ConfigurationAlreadyLoadedError",
                                  "ConfigurationFileNotFoundError")
                doc(e) == JsonLoads(disk[e.path]).doc
                path(e) == e.path
            IN  /\ last'.err =
                      IF f > Len(es) THEN "ok"
                      ELSE EntryError(DOMAIN configurations
                                          \cup NamesBefore(es, f), es[f],
                                      "ConfigurationAlreadyLoadedError",
                                      "ConfigurationFileNotFoundError")
                /\ BatchOutcome(configurations, configurations', es, f, doc)
                /\ \A j \in 1..(f - 1) :
                      config_paths'[es[j].name] = es[j].path
                /\ DOMAIN config_paths' =
                      DOMAIN config_paths \cup NamesBefore(es, f)
        /\ (last'.op \in LangBatchOps /\ WellFormed(last'.batch)) =>
            LET es == last'.batch.entries
                f == FirstFailure(DOMAIN languages, es,
                                  "LanguageAlreadyLoadedError",
                                  "LanguageFileNotFoundError")
                doc(e) == JsonLoads(disk[e.path]).doc
            IN  /\ last'.err =
                      IF f > Len(es) THEN "ok"
                      ELSE EntryError(DOMAIN languages \cup NamesBefore(es, f),
                                      es[f], "LanguageAlreadyLoadedError",
                                      "LanguageFileNotFoundError")
                /\ BatchOutcome(languages, languages', es, f, doc)
      ]_vars

\* reached: a batch naming "en" twice on an empty registry has loaded the
\* first occurrence and raised AlreadyLoaded on the second
C12_Witness ==
    /\ last.op = "load_languages"
    /\ last.batch = ListOf(<<Entry("en", "en.json"), Entry("en", "es.json")>>)
    /\ last.err = "LanguageAlreadyLoadedError"
    /\ languages = DictSet(EmptyDict, "en", EnDoc)

\* C13: a batch load validates the whole argument before it loads anything:
\* when the argument is not a list, or some entry, at whatever position, is
\* not a dictionary with a string 'name' and a string or path 'path', the
\* call raises ValueError and both registries and the disk are as before.
C13_BatchValidatedFirst ==
    [][ (/\ last'.op \in ConfigBatchOps \cup LangBatchOps
         /\ ~WellFormed(last'.batch))
        => /\ last'.err = "ValueError"
           /\ UNCHANGED <<cfgVars, langVars, disk>> ]_vars

\* reached: a batch whose second entry is not a dictionary was refused, and
\* its well-formed first entry "default" was not loaded
C13_Witness ==
    /\ last.op = "load_configurations"
    /\ last.batch = ListOf(<<Entry("default", "en.json"), NotADict>>)
    /\ last.err = "ValueError"
    /\ "default" \notin DOMAIN configurations

----------------------------------------------------------------------------
(* Removal of everything *)

\* The files that hold valid JSON.
ValidFiles == { p \in DOMAIN disk : JsonLoads(disk[p]).ok }

\* C14: remove_all_configurations and remove_all_languages raise nothing in
\* any state, an empty registry included; afterwards the configuration
\* documents and paths, respectively the language documents, are empty, and
\* every name loads again from any valid file.
C14_RemoveAllEmpties ==
    [](/\ last.op = "remove_all_configurations" =>
            /\ last.err = "ok"
            /\ configurations = EmptyDict /\ config_paths = EmptyDict
            /\ \A n \in ConfigNames, p \in ValidFiles :
                  /\ LoadConfigResult(n, p).err = "ok"
                  /\ AsyncLoadConfigResult(n, p).err = "ok"
       /\ last.op = "remove_all_languages" =>
            /\ last.err = "ok"
            /\ languages = EmptyDict
            /\ \A n \in LangNames, p \in ValidFiles :
                  /\ LoadLanguageResult(n, p).err = "ok"
                  /\ AsyncLoadLanguageResult(n, p).err = "ok")

\* reached: everything was removed from registries that had nothing loaded
C14_Witness ==
    /\ calls = 1
    /\ last.op \in {"remove_all_configurations", "remove_all_languages"}
    /\ last.err = "ok"
    /\ configurations = EmptyDict /\ languages = EmptyDict

----------------------------------------------------------------------------
(* set through a value that is no object *)

\* The positions before the last segment at which the document holds a
\* value that is no object: at most one, since only objects have members.
NonObjectAt(doc, parts) ==
    { i \in 1..(Len(parts) - 1) :
        /\ SubSeq(parts, 1, i) \in DOMAIN doc
        /\ doc[SubSeq(parts, 1, i)].t # "obj" }

\* The step is a set on a loaded name whose key runs through a value that
\* is no object.
SetThroughNonObject ==
    /\ last'.op \in SetOps
    /\ last'.name \in DOMAIN configurations
    /\ NonObjectAt(configurations[last'.name], Split(last'.key)) # {}

----------------------------------------------------------------------------
(* Asynchronous variants, each call awaited before the next is made *)

\* What a sync load would store from the state the step starts in.
StoredBy(r, dict, name, thing) ==
    IF r.err = "ok" THEN DictSet(dict, name, thing) ELSE dict

\* C16: from every state the calls can reach, sync and async alike, an async
\* load, batch load or set that is awaited to completion raises the error
\* and leaves the documents, paths and files that the sync call with the
\* same arguments raises and leaves from that state; so the same sequence
\* of calls gives the same results whichever variants it uses.
C16_AsyncEqualsSync ==
    [][ /\ last'.op = "async_load_configuration" =>
              LET r == LoadConfigResult(last'.name, last'.path) IN
              /\ last'.err = r.err
              /\ configurations' =
                    StoredBy(r, configurations, last'.name, r.doc)
              /\ config_paths' =
                    StoredBy(r, config_paths, last'.name, last'.path)
              /\ UNCHANGED <<langVars, disk>>
        /\ last'.op = "async_load_configurations" =>
              LET r == LoadConfigurationsResult(last'.batch) IN
              /\ last'.err = r.err
              /\ configurations' = r.configurations
              /\ config_paths' = r.config_paths
              /\ UNCHANGED <<langVars, disk>>
        /\ last'.op = "async_set_config_value" =>
              LET r == SetConfigResult(last'.key, last'.value, last'.name) IN
              /\ last'.err = r.err
              /\ configurations' = r.configurations
              /\ disk' = r.disk
              /\ UNCHANGED <<config_paths, langVars>>
        /\ last'.op = "async_load_language" =>
              LET r == LoadLanguageResult(last'.name, last'.path) IN
              /\ last'.err = r.err
              /\ languages' = StoredBy(r, languages, last'.name, r.doc)
              /\ UNCHANGED <<cfgVars, language, disk>>
        /\ last'.op = "async_load_languages" =>
              LET r == LoadLanguagesResult(last'.batch) IN
              /\ last'.err = r.err
              /\ languages' = r.languages
              /\ UNCHANGED <<cfgVars, language, disk>>
      ]_vars

\* reached: an async set has changed the file of its config, and a further
\* call, sync or async, can be made
C16_Witness ==
    /\ last.op = "async_set_config_value"
    /\ last.err = "ok"
    /\ calls < MaxCalls
    /\ disk[config_paths[last.name]] = JsonDumps(configurations[last.name])
    /\ disk[config_paths[last.name]] # InitDisk[config_paths[last.name]]

----------------------------------------------------------------------------
(* Which file a set writes *)

\* The path the step gives for the name it newly loads: the path argument
\* of a single load, the path of the name's entry in a batch.
PathGivenFor(n) ==
    IF last'.op \in ConfigBatchOps
    THEN LET es == last'.batch.entries
             j == CHOOSE i \in 1..Len(es) :
                     /\ es[i].name = n
                     /\ \A h \in 1..(i - 1) : es[h].name # n
         IN  es[j].path
    ELSE last'.path

\* C17: a name's path is the one given when it was loaded and stays so while
\* the name is loaded; every set that returns replaces the whole content of
\* the file at that path by the complete document of the name as it is now
\* and changes no other file; no other operation changes any file.
C17_SetWritesOwnFile ==
    [][ /\ \A n \in DOMAIN configurations' \ DOMAIN configurations :
              /\ last'.op \in ConfigLoadOps \cup ConfigBatchOps
              /\ n \in DOMAIN config_paths'
              /\ config_paths'[n] = PathGivenFor(n)
        /\ \A n \in DOMAIN configurations' \cap DOMAIN configurations :
              /\ n \in DOMAIN config_paths /\ n \in DOMAIN config_paths'
              /\ config_paths'[n] = config_paths[n]
        /\ (last'.op \in SetOps /\ last'.err = "ok") =>
              LET p == config_paths[last'.name] IN
              /\ DOMAIN disk' = DOMAIN disk \cup {p}
              /\ JsonLoads(disk'[p]) =
                    [ok |-> TRUE, doc |-> configurations'[last'.name]]
              /\ \A q \in DOMAIN disk \ {p} : disk'[q] = disk[q]
        /\ last'.op \notin SetOps => disk' = disk
      ]_vars

\* reached: "alt" was loaded from es.json and a set of its member a has
\* written its document to es.json and left en.json alone
C17_Witness ==
    /\ last.op \in SetOps /\ last.err = "ok" /\ last.name = "alt"
    /\ last.key = <<"a">>
    /\ config_paths["alt"] = "es.json"
    /\ JsonLoads(disk["es.json"]).doc = configurations["alt"]
    /\ disk["es.json"] # InitDisk["es.json"]
    /\ disk["en.json"] = InitDisk["en.json"]

----------------------------------------------------------------------------
(* The active language and removal *)

RemoveLangOps == {"remove_language", "remove_languages", "remove_all_languages"}

\* C18: remove_language, remove_languages and remove_all_languages leave the
\* active language as it was, also when they remove the entry it names;
\* get_current_language returns it, loaded or not; and no operation makes
\* it None once it is a name.
C18_RemovalKeepsActive ==
    /\ [][ /\ last'.op \in RemoveLangOps => language' = language
           /\ language # NoLanguage => language' # NoLanguage ]_vars
    /\ [](last.op = "get_current_language" =>
             last.err = "ok" /\ last.sret = language)

\* reached: the active language "en" was removed and is still the active
\* language
C18_Witness ==
    /\ last.op \in RemoveLangOps
    /\ last.err = "ok"
    /\ language = "en"
    /\ "en" \notin DOMAIN languages

----------------------------------------------------------------------------
(* What a set changes in memory *)

IsPrefix(a, b) == Len(a) <= Len(b) /\ SubSeq(b, 1, Len(a)) = a

\* new is old with value at the path parts: the values on the way are
\* objects, the value and its members are at and below parts, and every
\* other path has what it had.
AssignedAlong(old, new, parts, value) ==
    /\ \A p \in DOMAIN new :
          IF IsPrefix(parts, p)
          THEN LET q == SubSeq(p, Len(parts) + 1, Len(p))
               IN  q \in DOMAIN value /\ new[p] = value[q]
          ELSE IF IsPrefix(p, parts)
          THEN new[p].t = "obj"
          ELSE p \in DOMAIN old /\ new[p] = old[p]
    /\ \A q \in DOMAIN value : parts \o q \in DOMAIN new
    /\ \A i \in 0..(Len(parts) - 1) : SubSeq(parts, 1, i) \in DOMAIN new
    /\ \A p \in DOMAIN old :
          (~IsPrefix(parts, p) /\ ~IsPrefix(p, parts)) => p \in DOMAIN new

\* C19 (values are JSON values, given anew in every call): a set that
\* returns changes the document of its name only along the
\* path of its key: the segments before the last are objects, created empty
\* where they were missing, the value is at the last segment, and every
\* other member of the document is as before; the documents of all other
\* names are as before, also of a name loaded from the same file.
C19_SetChangesOnlyItsPath ==
    [][ (last'.op \in SetOps /\ last'.err = "ok") =>
          /\ DOMAIN configurations' = DOMAIN configurations
          /\ last'.name \in DOMAIN configurations
          /\ AssignedAlong(configurations[last'.name],
                           configurations'[last'.name],
                           Split(last'.key), last'.value)
          /\ \A n \in DOMAIN configurations \ {last'.name} :
                configurations'[n] = configurations[n]
          /\ config_paths' = config_paths ]_vars

\* reached: "default" and "alt" were both loaded from en.json, b.a was set
\* in one of them, and the other still has en.json's document
C19_Witness ==
    /\ last.op \in SetOps /\ last.err = "ok"
    /\ last.key = <<"b", ".", "a">>
    /\ DOMAIN configurations = {"default", "alt"}
    /\ config_paths["default"] = "en.json" /\ config_paths["alt"] = "en.json"
    /\ \E n \in {"default", "alt"} \ {last.name} : configurations[n] = EnDoc
    /\ configurations[last.name] # EnDoc

----------------------------------------------------------------------------
(* Reads *)

ReadOps ==
    {"get_config_value", "get_configuration", "get_configurations",
     "translate_message", "get_language", "get_languages",
     "get_current_language"}

\* The path the step gives for the language it newly loads.
LangPathGivenFor(n) ==
    IF last'.op \in LangBatchOps
    THEN LET es == last'.batch.entries
             j == CHOOSE i \in 1..Len(es) :
                     /\ es[i].name = n
                     /\ \A h \in 1..(i - 1) : es[h].name # n
         IN  es[j].path
    ELSE last'.path

\* C20: get_config_value, get_configuration, get_configurations,
\* translate_message, get_language, get_languages and get_current_language
\* change no document, no path, not the active language and no file; a
\* language document is what its file parsed to when it was loaded, and is
\* the same after every step that does not remove it.
C20_ReadsArePure ==
    [][ /\ last'.op \in ReadOps => UNCHANGED <<cfgVars, langVars, disk>>
        /\ \A n \in DOMAIN languages \cap DOMAIN languages' :
              languages'[n] = languages[n]
        /\ \A n \in DOMAIN languages' \ DOMAIN languages :
              /\ last'.op \in LangLoadOps \cup LangBatchOps
              /\ languages'[n] = JsonLoads(disk[LangPathGivenFor(n)]).doc
      ]_vars

\* reached: a key that en.json's document lacks was translated, the key
\* came back, and the active language's document still is en.json's
C20_Witness ==
    /\ last.op = "translate_message"
    /\ last.err = "ok"
    /\ last.key = <<"b", ".", "a">>
    /\ last.ret = StrVal(last.key)
    /\ languages[language] = EnDoc

----------------------------------------------------------------------------
(* A set that raises *)

\* C24 (values are JSON values): whenever the sync set raises, because the
\* name is not loaded or because the root of the document or a value on the
\* way of the key is no object, the documents of all configs, the paths
\* and all files are as before the call: no object was created on the way
\* and no file was opened for writing.
C24_FailedSetChangesNothing ==
    [][ (last'.op = "set_config_value" /\ last'.err # "ok") =>
          /\ last'.err \in {"ConfigurationNotLoadedError", "TypeError",
                             "AttributeError"}
          /\ UNCHANGED <<cfgVars, disk>> ]_vars

\* reached: b.a was set in a config whose document is null; the call raised
\* at the root, and the document and its file are still null
C24_Witness ==
    /\ last.op = "set_config_value"
    /\ last.key = <<"b", ".", "a">>
    /\ last.err = "AttributeError"
    /\ last.name \in DOMAIN configurations
    /\ configurations[last.name] = JsonNull
    /\ disk[config_paths[last.name]] = InitDisk["null.json"]

----------------------------------------------------------------------------
(* Memory and file *)

\* C25: in every state that load, set, remove and remove-all calls reach,
\* every loaded config that was set with success since its load has, in
\* the file at its path, exactly its in-memory document; also when several
\* names were loaded from one file and each was set.
C25_FileEqualsDocument ==
    \A n \in written \cap DOMAIN configurations :
        /\ n \in DOMAIN config_paths
        /\ JsonLoads(disk[config_paths[n]]) =
              [ok |-> TRUE, doc |-> configurations[n]]

----------------------------------------------------------------------------
(* The active language is a name *)

\* C26: loading and removing languages leave the active language, a name,
\* as it is, and translate_message resolves the key in whatever document
\* the registry holds under that name when it is called: after the active
\* language was removed and another file loaded under its name, the new
\* document answers, without a new set_language.
C26_ActiveIsAName ==
    [][ /\ last'.op \in RemoveLangOps \cup LangLoadOps \cup LangBatchOps =>
              language' = language
        /\ (last'.op = "translate_message" /\ language \in DOMAIN languages) =>
              /\ last'.err = "ok"
              /\ last'.ret = Descend(languages[language], Split(last'.key),
                                     last'.key) ]_vars

\* reached, in three calls after set_language("en") on en.json's document:
\* "en" removed, es.json loaded as "en", and "a" translated to es.json's "y"
C26_Witness ==
    /\ calls = 3
    /\ last.op = "translate_message"
    /\ last.key = <<"a">>
    /\ last.ret = StrVal(<<"y">>)
    /\ language = "en"
    /\ languages["en"] = JsonLoads(InitDisk["es.json"]).doc
    /\ languages["en"] # EnDoc

----------------------------------------------------------------------------
(* Overlapping coroutines *)

\* Coroutine t runs on from its read to the store of what it has read, and
\* what it has read is valid JSON.
StoresParsed(t, op) ==
    /\ tasks[t].op = op
    /\ tasks[t].pc = "loaded" /\ tasks'[t].pc = "close"
    /\ JsonLoads(tasks[t].content).ok

\* C21: an async load tests the name only before it first suspends and
\* stores after the read without testing again or locking: AlreadyLoaded is
\* raised only by a call that has not suspended yet, and a coroutine that
\* has read valid JSON stores document and path and raises nothing, also
\* when the name was loaded meanwhile; of two overlapping loads of one name
\* both succeed and the later store replaces the earlier one's.
C21_AsyncLoadsRace ==
    [][ \A t \in TaskIds :
          /\ StoresParsed(t, "async_load_configuration") =>
                /\ tasks'[t].err = "ok"
                /\ configurations' =
                      DictSet(configurations, tasks[t].name,
                              JsonLoads(tasks[t].content).doc)
                /\ config_paths' =
                      DictSet(config_paths, tasks[t].name, tasks[t].path)
          /\ StoresParsed(t, "async_load_language") =>
                /\ tasks'[t].err = "ok"
                /\ languages' =
                      DictSet(languages, tasks[t].name,
                              JsonLoads(tasks[t].content).doc)
          /\ (/\ tasks'[t] # tasks[t]
              /\ tasks'[t].err \in {"ConfigurationAlreadyLoadedError",
                                     "LanguageAlreadyLoadedError"}) =>
                /\ ~Suspended(t)
                /\ tasks'[t].pc = "done"
                /\ tasks'[t].name \in
                      IF tasks'[t].op = "async_load_configuration"
                      THEN DOMAIN configurations ELSE DOMAIN languages
      ]_vars

\* reached: two coroutines loaded "default", one from en.json and one from
\* es.json; the second started while the first was suspended, neither
\* raised, and the registry has the document and path of the second
C21_Witness ==
    /\ \A t \in TaskIds :
          /\ tasks[t].op = "async_load_configuration"
          /\ tasks[t].name = "default"
          /\ tasks[t].pc = "done" /\ tasks[t].err = "ok"
    /\ tasks[1].path = "en.json" /\ tasks[2].path = "es.json"
    /\ calls = 2
    /\ configurations["default"] = JsonLoads(InitDisk["es.json"]).doc
    /\ config_paths["default"] = "es.json"

\* No coroutine is suspended.
Quiescent == \A t \in TaskIds : ~Suspended(t)

\* The file at p is as it was at the start or holds one complete JSON
\* document.
WholeFile(p) == disk[p] = InitDisk[p] \/ JsonLoads(disk[p]).ok

\* C22: file writes are whole-file: no file is left truncated, empty or
\* partly written, also not when the config of an async set is removed
\* while the set is suspended on its file.  Stated here for the states in
\* which every coroutine has finished and no two sets on one name ran at
\* the same time, where it already fails.
C22_FilesAreWhole ==
    (Quiescent /\ \A t \in TaskIds : ~tasks[t].ov)
        => \A p \in DOMAIN disk : WholeFile(p)

\* Both coroutines have finished an async set on config n without raising,
\* and the two sets ran at the same time.
OverlappingSetsDone(n) ==
    /\ Quiescent
    /\ \A t \in TaskIds :
          /\ tasks[t].op = "async_set_config_value"
          /\ tasks[t].name = n
          /\ tasks[t].err = "ok"
          /\ tasks[t].ov
    /\ n \in DOMAIN configurations

\* Neither key is the other or leads through it.
Independent(k1, k2) ==
    /\ ~IsPrefix(Split(k1), Split(k2))
    /\ ~IsPrefix(Split(k2), Split(k1))

\* C23: when async sets on one config name overlap, in whatever order the
\* scheduler runs them, then once all have completed the in-memory
\* document has every value that was set, and the file at the config's
\* path holds exactly the in-memory document: no update is lost on disk.
C23_NoLostUpdate ==
    \A n \in AsyncConfigNames :
        OverlappingSetsDone(n) =>
            /\ Independent(tasks[1].key, tasks[2].key) =>
                  \A t \in TaskIds :
                      Reduce(configurations[n], Split(tasks[t].key), 1,
                             tasks[t].key) = tasks[t].value
            /\ JsonLoads(disk[config_paths[n]]) =
                  [ok |-> TRUE, doc |-> configurations[n]]

====
